---- MODULE Spec2Model ----
(***************************************************************************)
(* Model of the request-routing crate: the payload cursor and the typed    *)
(* argument decoder (src/src/service.rs), the handler wrapper              *)
(* (src/src/handler.rs), the requests (src/src/request.rs) and the route   *)
(* registry with its dispatcher (src/src/server.rs).                       *)
(*                                                                         *)
(* Target assumed: x86_64 (usize/isize are 8 bytes, every scalar's         *)
(* alignment equals its size).  A Vec<u8>'s buffer is taken to start at an *)
(* address aligned for every scalar (the favourable case for the code), so *)
(* the address of a read is, modulo any alignment, its offset in the       *)
(* buffer.                                                                 *)
(***************************************************************************)
EXTENDS Integers, Sequences, FiniteSets, TLC

VARIABLES get, post, latest, op, req, res, invoked, cur, dec, tsig, tbuf, phase

vars == <<get, post, latest, op, req, res, invoked, cur, dec, tsig, tbuf, phase>>

-----------------------------------------------------------------------------
(* Bounds of the model *)

MaxArity == 3
MaxLen == 3
NumTypes == 3

-----------------------------------------------------------------------------
(* Scalars: mark_basic_type!, service.rs:90-94.  The floats are carried as *)
(* their IEEE bit patterns (t_ptr.read() is a bitwise copy).               *)

TypeNames ==
    <<"u8", "u16", "i8", "i16", "u32", "i32", "f32",
      "u64", "i64", "usize", "isize", "f64">>

Types == {TypeNames[i] : i \in 1..NumTypes}

\* trait Size: const SIZE = size_of::<Self>()
SIZE(T) ==
    CASE T \in {"u8", "i8"} -> 1
      [] T \in {"u16", "i16"} -> 2
      [] T \in {"u32", "i32", "f32"} -> 4
      [] T \in {"u64", "i64", "usize", "isize", "f64"} -> 8

\* align_of::<T>() on the target: what t_ptr.read() requires of t_ptr
ALIGN(T) == SIZE(T)

Signed(T) == T \in {"i8", "i16", "i32", "i64", "isize"}

RECURSIVE Pow256(_)
Pow256(n) == IF n = 0 THEN 1 ELSE 256 * Pow256(n - 1)

MinVal(T) == IF Signed(T) THEN 0 - (Pow256(SIZE(T)) \div 2) ELSE 0
MaxVal(T) == IF Signed(T) THEN (Pow256(SIZE(T)) \div 2) - 1 ELSE Pow256(SIZE(T)) - 1

\* The value of type T whose little-endian representation is `bytes`
RECURSIVE LEUnsigned(_)
LEUnsigned(bytes) ==
    IF bytes = <<>> THEN 0 ELSE Head(bytes) + 256 * LEUnsigned(Tail(bytes))

FromLE(T, bytes) ==
    LET u == LEUnsigned(bytes)
    IN  IF Signed(T) /\ u > MaxVal(T) THEN u - Pow256(SIZE(T)) ELSE u

\* T::to_le_bytes, as the tests build their buffers
to_le_bytes(T, v) ==
    LET u == IF v < 0 THEN v + Pow256(SIZE(T)) ELSE v
    IN  [i \in 1..SIZE(T) |-> (u \div Pow256(i - 1)) % 256]

-----------------------------------------------------------------------------
(* Inputs *)

Byte == {1, 255}

RECURSIVE SeqsUpTo(_, _)
SeqsUpTo(S, n) ==
    IF n = 0 THEN {<<>>}
    ELSE LET shorter == SeqsUpTo(S, n - 1)
         IN  shorter \cup {Append(s, x) : s \in {t \in shorter : Len(t) = n - 1}, x \in S}

\* The argument tuples Args a handler can declare: () and the tuples of
\* scalars (tuple_impl_from_payload!, bounded by MaxArity instead of 10)
Sigs == SeqsUpTo(Types, MaxArity)

\* request payloads / test buffers
Payloads == SeqsUpTo(Byte, MaxLen)

Sample == {-128, -1, 0, 10, 255, 258}

ArgVals(T) == {v \in Sample : MinVal(T) <= v /\ v <= MaxVal(T)}

ArgTuples(sig) ==
    {a \in [1..Len(sig) -> Sample] : \A i \in 1..Len(sig) : a[i] \in ArgVals(sig[i])}

\* buf.write(&v0.to_le_bytes()); buf.write(&v1.to_le_bytes()); ...
RECURSIVE Encode(_, _)
Encode(sig, a) ==
    IF Len(sig) = 0 THEN <<>>
    ELSE to_le_bytes(sig[1], a[1])
            \o Encode(Tail(sig), [i \in 1..(Len(sig) - 1) |-> a[i + 1]])

RECURSIVE SumWidths(_)
SumWidths(sig) == IF sig = <<>> THEN 0 ELSE SIZE(Head(sig)) + SumWidths(Tail(sig))

-----------------------------------------------------------------------------
(* Payload: service.rs:42-58.  data is the pointer, kept as its offset     *)
(* from the start of the buffer it was made from.                          *)

from_bytes(bytes) == [data |-> 0, len |-> Len(bytes)]

len(payload) == payload.len

(* The memory a Payload points into: the buffer's bytes followed by        *)
(* whatever lies behind the allocation (`junk`).                           *)
Memory(bytes, junk) == [bytes |-> bytes \o junk, size |-> Len(bytes)]

InBounds(m, at, n) == at + n <= m.size

Aligned(at, T) == at % ALIGN(T) = 0

\* How far the reads of `sig` reach in a buffer of n bytes: every read whose
\* length test passes moves the pointer on.
RECURSIVE Reach(_, _)
Reach(sig, n) ==
    IF sig = <<>> \/ n < SIZE(Head(sig)) THEN 0
    ELSE SIZE(Head(sig)) + Reach(Tail(sig), n)

Max0(x) == IF x > 0 THEN x ELSE 0

\* The bytes behind the buffer that decoding `sig` can touch
Junk(sig, bytes) == [1..Max0(Reach(sig, Len(bytes)) - Len(bytes)) -> Byte]

-----------------------------------------------------------------------------
(* impl<T: BasicType> FromPayload for T: service.rs:65-81.                 *)
(* A read outside the buffer or at a misaligned address is undefined       *)
(* behaviour: with `trap` the build stops the process there (a checked     *)
(* precondition of ptr::read, a fault), without it the read returns what   *)
(* the memory holds.                                                       *)

ExtractErr == "Failed to extract args from payload"

BasicFrom(T, payload, m, trap) ==
    LET payload_size == len(payload)
    IN  IF payload_size >= SIZE(T)
        THEN LET t_ptr == payload.data
                 moved == [payload EXCEPT !.data = payload.data + SIZE(T)]
                 ub    == ~InBounds(m, t_ptr, SIZE(T)) \/ ~Aligned(t_ptr, T)
             IN  IF ~(ub /\ trap)
                 THEN [kind |-> "Ok",
                       val |-> FromLE(T, SubSeq(m.bytes, t_ptr + 1, t_ptr + SIZE(T))),
                       msg |-> "", payload |-> moved]
                 ELSE [kind |-> "Trap", val |-> 0, msg |-> "", payload |-> moved]
        ELSE [kind |-> "Err", val |-> 0, msg |-> ExtractErr, payload |-> payload]

\* A tuple decoder without the `?`: it goes on to the later elements after an
\* element failed, and reports the first error at the end.
RECURSIVE TupleStepAll(_, _, _, _, _)
TupleStepAll(sig, i, st, m, trap) ==
    IF i > Len(sig) THEN st
    ELSE LET r  == BasicFrom(sig[i], st.payload, m, trap)
             rd == [idx |-> i, at |-> st.payload.data, size |-> SIZE(sig[i]),
                    ok |-> r.kind = "Ok"]
             failed == st.kind # "Ok" \/ r.kind # "Ok"
         IN  TupleStepAll(sig, i + 1,
                          [kind |-> IF st.kind # "Ok" THEN st.kind ELSE r.kind,
                           val |-> IF failed THEN <<>> ELSE Append(st.val, r.val),
                           msg |-> IF st.kind # "Ok" THEN st.msg ELSE r.msg,
                           payload |-> r.payload, reads |-> Append(st.reads, rd)],
                          m, trap)

(* impl FromPayload for () and for the tuples: service.rs:96-115.          *)
(* `reads` lists the element reads performed, in the order performed.      *)
RECURSIVE TupleStep(_, _, _, _, _)
TupleStep(sig, i, st, m, trap) ==
    IF i > Len(sig) THEN st
    ELSE LET r  == BasicFrom(sig[i], st.payload, m, trap)
             rd == [idx |-> i, at |-> st.payload.data, size |-> SIZE(sig[i]),
                    ok |-> r.kind = "Ok"]
         IN  IF r.kind = "Ok"
             THEN TupleStep(sig, i + 1,
                            [kind |-> "Ok", val |-> Append(st.val, r.val), msg |-> "",
                             payload |-> r.payload, reads |-> Append(st.reads, rd)],
                            m, trap)
             ELSE [kind |-> r.kind, val |-> <<>>, msg |-> r.msg,
                   payload |-> r.payload, reads |-> Append(st.reads, rd)]

TupleFrom(sig, payload, m, trap) ==
    TupleStep(sig, 1,
              [kind |-> "Ok", val |-> <<>>, msg |-> "", payload |-> payload,
               reads |-> <<>>],
              m, trap)

-----------------------------------------------------------------------------
(* State shapes *)

NoDec == [kind |-> "None", val |-> <<>>, msg |-> "", reads |-> <<>>]
NoCur == [data |-> 0, len |-> 0]
NoReq == [ty |-> "Get", path |-> "/", payload |-> <<>>]
NoRes == [kind |-> "None", status |-> "", msg |-> <<>>]
Empty == [p \in {} |-> <<>>]

-----------------------------------------------------------------------------
(* Requests: request.rs:3-23 *)

RequestType == {"Get", "Post"}

Paths == {"/", "/book"}

\* impl From<T: Into<String>> for Path: the path is kept as given
PathFrom(value) == value

PatternByte(i) == IF i % 2 = 1 THEN 10 ELSE 255

\* The payloads of the requests dispatched: one buffer of each length
RequestPayloads == {[i \in 1..n |-> PatternByte(i)] : n \in 0..MaxLen}

RequestGet(path, payload) == [ty |-> "Get", path |-> PathFrom(path), payload |-> payload]

RequestPost(path, payload) == [ty |-> "Post", path |-> PathFrom(path), payload |-> payload]

Requests ==
    {RequestGet(p, b) : p \in Paths, b \in RequestPayloads}
        \cup {RequestPost(p, b) : p \in Paths, b \in RequestPayloads}

-----------------------------------------------------------------------------
(* Handlers: handler.rs.  A user callable F: Factory<Args, Res> is known   *)
(* to the model by its argument tuple; what it returns is its own affair   *)
(* and is chosen when it is called.  The callables registered are of       *)
(* arity 0, 1 and 2, as the ones of lib.rs's test.                         *)

HttpStatus == {"Success", "Failed"}

Callables == {[args |-> <<>>], [args |-> <<"u16">>], [args |-> <<"u8", "u16">>]}

\* Handler::new
HandlerNew(f) == [f |-> f]

\* Handler::call -> Factory::call: the callable runs once on the decoded
\* tuple; `ret` is what it returns.  The result carries the record of the run.
HandlerCall(handler, args, ret) ==
    [ret |-> ret, ran |-> <<[f |-> handler.f, args |-> args, ret |-> ret]>>]

-----------------------------------------------------------------------------
(* BoxedService: service.rs:9-36 *)

\* BoxedService::from_handler: the closure owns the handler
from_handler(handler) == [service |-> handler]

\* BoxedService::handle: runs the closure of from_handler on the payload
handle(s, payload, m, trap, ret) ==
    LET handler == s.service
        r == TupleFrom(handler.f.args, payload, m, trap)
        d == [kind |-> r.kind, val |-> r.val, msg |-> r.msg, reads |-> r.reads]
    IN  CASE r.kind = "Ok" ->
               LET c == HandlerCall(handler, r.val, ret)
               IN  [kind |-> "Ok", status |-> c.ret, ran |-> c.ran,
                    cur |-> r.payload, dec |-> d]
          [] r.kind = "Err" ->
               [kind |-> "Ok", status |-> "Failed", ran |-> <<>>,
                cur |-> r.payload, dec |-> d]
          [] r.kind = "Trap" ->
               [kind |-> "Trap", status |-> "", ran |-> <<>>,
                cur |-> r.payload, dec |-> d]

-----------------------------------------------------------------------------
(* Server: server.rs:8-60.  A HashMap is a function on its keys.           *)

\* An insert that keeps the binding a key already has
InsertKeep(map, k, v) ==
    [x \in (DOMAIN map) \cup {k} |-> IF x \in DOMAIN map THEN map[x] ELSE v]

\* HashMap::insert
Insert(map, k, v) == [x \in (DOMAIN map) \cup {k} |-> IF x = k THEN v ELSE map[x]]

\* A lookup that falls back to some other binding of the map when the key
\* has none
LookupAny(map, k) ==
    IF k \in DOMAIN map THEN {map[k]}
    ELSE IF DOMAIN map = {} THEN {}
    ELSE {map[CHOOSE x \in DOMAIN map : TRUE]}

\* HashMap::get: Some(s) is {s}, None is {}
Lookup(map, k) == IF k \in DOMAIN map THEN {map[k]} ELSE {}

\* A dispatcher that looks every request up among the GET routes
RouteMapGet(g, p, ty) == g

\* match request.ty { Get => self.get.., Post => self.post.. }
RouteMap(g, p, ty) == IF ty = "Get" THEN g ELSE p

MissingMsg(request) ==
    <<IF request.ty = "Get" THEN "missing get handler for path"
                             ELSE "missing post handler for path",
      request.path>>

\* Server::handle_request, given what the decode's undefined reads do
\* (junk, trap) and what the callable returns (ret)
handle_request(g, p, request, junk, trap, ret) ==
    LET found == Lookup(RouteMap(g, p, request.ty), request.path)
    IN  IF found = {}
        THEN [res |-> [kind |-> "Err", status |-> "", msg |-> MissingMsg(request)],
              ran |-> <<>>, cur |-> NoCur, dec |-> NoDec]
        ELSE LET service == CHOOSE s \in found : TRUE
                 payload == from_bytes(request.payload)
                 h == handle(service, payload, Memory(request.payload, junk), trap, ret)
             IN  [res |-> [kind |-> h.kind, status |-> h.status, msg |-> <<>>],
                  ran |-> h.ran, cur |-> h.cur, dec |-> h.dec]

\* Everything one call of handle_request can come to
Outcomes(g, p, request) ==
    LET found == Lookup(RouteMap(g, p, request.ty), request.path)
        junks == IF found = {} THEN {<<>>}
                 ELSE UNION {Junk(s.service.f.args, request.payload) : s \in found}
    IN  {handle_request(g, p, request, junk, trap, ret) :
            junk \in junks, trap \in BOOLEAN, ret \in HttpStatus}

\* The process has not been stopped by a trapped read
Alive == res.kind # "Trap"

\* The record of the newest registration of a route: which callable, and
\* whether the route had been bound to another callable before
Newest(reg, path, f) ==
    [x \in (DOMAIN reg) \cup {path} |->
        IF x = path
        THEN [f |-> f,
              over |-> path \in DOMAIN reg /\ (reg[path].f # f \/ reg[path].over)]
        ELSE reg[x]]

Init ==
    /\ get = Empty /\ post = Empty /\ latest = <<Empty, Empty>>
    /\ op = "init" /\ req = NoReq /\ res = NoRes /\ invoked = <<>>
    /\ cur = NoCur /\ dec = NoDec
    /\ tsig = <<>> /\ tbuf = <<>> /\ phase = "server"

\* Server::get
Get(path, f) ==
    /\ Alive
    /\ get' = Insert(get, PathFrom(path), from_handler(HandlerNew(f)))
    /\ latest' = <<Newest(latest[1], path, f), latest[2]>>
    /\ op' = "get"
    /\ req' = NoReq /\ res' = NoRes /\ invoked' = <<>> /\ cur' = NoCur /\ dec' = NoDec
    /\ UNCHANGED <<post, tsig, tbuf, phase>>

\* Server::post
Post(path, f) ==
    /\ Alive
    /\ post' = Insert(post, PathFrom(path), from_handler(HandlerNew(f)))
    /\ latest' = <<latest[1], Newest(latest[2], path, f)>>
    /\ op' = "post"
    /\ req' = NoReq /\ res' = NoRes /\ invoked' = <<>> /\ cur' = NoCur /\ dec' = NoDec
    /\ UNCHANGED <<get, tsig, tbuf, phase>>

\* A dispatcher that drops a route whose decode failed
HandleRequestPoison ==
    /\ Alive
    /\ \E request \in Requests :
          \E o \in Outcomes(get, post, request) :
              /\ req' = request
              /\ res' = o.res
              /\ invoked' = o.ran
              /\ cur' = o.cur
              /\ dec' = o.dec
              /\ LET drop(map) == [x \in (DOMAIN map) \ {request.path} |-> map[x]]
                     bad == o.dec.kind = "Err"
                 IN  /\ get' = IF bad /\ request.ty = "Get" THEN drop(get) ELSE get
                     /\ post' = IF bad /\ request.ty = "Post" THEN drop(post) ELSE post
    /\ op' = "handle_request"
    /\ UNCHANGED <<latest, tsig, tbuf, phase>>

\* Server::handle_request
HandleRequest ==
    /\ Alive
    /\ \E request \in Requests :
          \E o \in Outcomes(get, post, request) :
              /\ req' = request
              /\ res' = o.res
              /\ invoked' = o.ran
              /\ cur' = o.cur
              /\ dec' = o.dec
    /\ op' = "handle_request"
    /\ UNCHANGED <<get, post, latest, tsig, tbuf, phase>>

Next ==
    \/ \E path \in Paths, f \in Callables : Get(path, f)
    \/ \E path \in Paths, f \in Callables : Post(path, f)
    \/ HandleRequest

Spec == Init /\ [][Next]_vars

-----------------------------------------------------------------------------
(* The decoder on its own, as service.rs's tests drive it:                 *)
(*   let mut payload = Payload::from_bytes(&buf);                          *)
(*   <(T0, ..) as FromPayload>::from(&mut payload)                         *)

InitDecode ==
    /\ get = Empty /\ post = Empty /\ latest = <<Empty, Empty>>
    /\ op = "init" /\ req = NoReq /\ res = NoRes /\ invoked = <<>>
    /\ cur = NoCur /\ dec = NoDec
    /\ tsig \in Sigs
    /\ tbuf \in Payloads \cup {Encode(tsig, a) : a \in ArgTuples(tsig)}
    /\ phase = "input"

DecodeTuple ==
    /\ phase = "input"
    /\ \E junk \in Junk(tsig, tbuf), trap \in BOOLEAN :
          LET r == TupleFrom(tsig, from_bytes(tbuf), Memory(tbuf, junk), trap)
          IN  /\ cur' = r.payload
              /\ dec' = [kind |-> r.kind, val |-> r.val, msg |-> r.msg, reads |-> r.reads]
    /\ phase' = "done"
    /\ UNCHANGED <<get, post, latest, op, req, res, invoked, tsig, tbuf>>

NextDecode == DecodeTuple

SpecDecode == InitDecode /\ [][NextDecode]_vars

-----------------------------------------------------------------------------
(* Properties *)

\* The route map the last request was looked up in, and its ghost record
ReqMap == IF req.ty = "Get" THEN get ELSE post
ReqNewest == IF req.ty = "Get" THEN latest[1] ELSE latest[2]
Dispatched == op = "handle_request"
Bound == Dispatched /\ req.path \in DOMAIN ReqMap
BoundArgs == ReqMap[req.path].service.f.args

\* The tuple that the first SumWidths(sig) bytes of `bytes` encode
RECURSIVE PrefixArgs(_, _)
PrefixArgs(sig, bytes) ==
    IF sig = <<>> THEN <<>>
    ELSE <<FromLE(Head(sig), SubSeq(bytes, 1, SIZE(Head(sig))))>>
            \o PrefixArgs(Tail(sig), SubSeq(bytes, SIZE(Head(sig)) + 1, Len(bytes)))

\* C1: decoding any argument tuple from any buffer never reads past the
\* buffer: every element read that succeeds lies within the buffer
\* (offset + width <= buffer length) and the cursor's offset stays within
\* 0..buffer length.
C1_CursorInBounds ==
    phase = "done" =>
        /\ \A i \in DOMAIN dec.reads :
              dec.reads[i].ok => dec.reads[i].at + dec.reads[i].size <= Len(tbuf)
        /\ 0 <= cur.data /\ cur.data <= Len(tbuf)

\* C2: a dispatch to a registered route with a payload shorter than the sum
\* of the widths of the handler's arguments returns Ok(Failed) and does not
\* invoke the handler.
C2_ShortPayloadFails ==
    (Bound /\ Len(req.payload) < SumWidths(BoundArgs)) =>
        /\ res = [kind |-> "Ok", status |-> "Failed", msg |-> <<>>]
        /\ invoked = <<>>

\* C3: a dispatch to a (verb, path) that has no registered handler returns
\* the route-not-found error (an Err, not an outcome) and invokes no handler,
\* whatever the payload and the other registrations.
C3_RouteNotFound ==
    (Dispatched /\ req.path \notin DOMAIN ReqMap) =>
        /\ res = [kind |-> "Err", status |-> "", msg |-> MissingMsg(req)]
        /\ invoked = <<>>

C3_Witness ==
    /\ Dispatched /\ req.path \notin DOMAIN ReqMap
    /\ DOMAIN get # {} /\ DOMAIN post # {}
    /\ req.payload # <<>>
    /\ res.kind = "Err"

\* C4: after any sequence of registrations each route is bound to the
\* callable of its newest registration and to no other, and a dispatch that
\* invokes a handler invokes that newest callable, once.
C4_ReRegisterReplaces ==
    /\ DOMAIN get = DOMAIN latest[1] /\ DOMAIN post = DOMAIN latest[2]
    /\ \A p \in DOMAIN get : get[p].service.f = latest[1][p].f
    /\ \A p \in DOMAIN post : post[p].service.f = latest[2][p].f
    /\ (Dispatched /\ invoked # <<>>) =>
          /\ Len(invoked) = 1
          /\ req.path \in DOMAIN ReqNewest
          /\ invoked[1].f = ReqNewest[req.path].f

C4_Witness ==
    /\ Dispatched /\ invoked # <<>>
    /\ req.path \in DOMAIN ReqNewest
    /\ ReqNewest[req.path].over

\* C5: a dispatch to a registered route with a payload at least as long as
\* the sum of the widths of the handler's arguments invokes the handler
\* exactly once, with the arguments the payload's prefix encodes, and returns
\* Ok with what the handler returned; a handler without arguments succeeds
\* for every payload.
C5_LongPayloadInvokes ==
    (Bound /\ Len(req.payload) >= SumWidths(BoundArgs)) =>
        /\ res.kind = "Ok"
        /\ Len(invoked) = 1
        /\ invoked[1].f = ReqMap[req.path].service.f
        /\ invoked[1].args = PrefixArgs(BoundArgs, req.payload)
        /\ res.status = invoked[1].ret

\* C6: decoding the concatenation of the little-endian encodings of
\* (v0..vN-1) yields (v0..vN-1); element k is read at the sum of the widths
\* of the elements before it, and the decode consumes the sum of the widths.
C6_RoundTrip ==
    phase = "done" =>
        \A a \in ArgTuples(tsig) :
            tbuf = Encode(tsig, a) =>
                /\ dec.kind = "Ok"
                /\ dec.val = a
                /\ Len(dec.reads) = Len(tsig)
                /\ \A k \in 1..Len(tsig) :
                      dec.reads[k].at = SumWidths(SubSeq(tsig, 1, k - 1))
                /\ cur.data = SumWidths(tsig)

\* C7: after the reads of a decode, Payload::len returns the length of the
\* buffer less the bytes the reads consumed.
C7_RemainingLen ==
    phase = "done" => len(cur) = Len(tbuf) - cur.data

\* C8: handle_request leaves the route registry as it was, whether it ends
\* in route-not-found, in a failed decode or in a handler's outcome.
C8_Stateless ==
    [][op' = "handle_request" => (get' = get /\ post' = post)]_vars

C8_Witness ==
    /\ Dispatched /\ req.path \in DOMAIN ReqMap
    /\ dec.kind = "Err"
    /\ res = [kind |-> "Ok", status |-> "Failed", msg |-> <<>>]

\* C9: a tuple is decoded element by element in declared order, and the
\* decode stops at the first element whose read fails: that read is the last
\* one performed, its error is the result, and the cursor stays where the
\* failing read found it.
C9_ShortCircuit ==
    phase = "done" =>
        LET n == Len(dec.reads)
        IN  /\ n <= Len(tsig)
            /\ \A i \in 1..n :
                  /\ dec.reads[i].idx = i
                  /\ dec.reads[i].size = SIZE(tsig[i])
                  /\ (~dec.reads[i].ok) => i = n
                  /\ i > 1 => dec.reads[i].at = dec.reads[i - 1].at + dec.reads[i - 1].size
            /\ dec.kind = "Ok" => n = Len(tsig)
            /\ dec.kind = "Err" =>
                  /\ n >= 1 /\ ~dec.reads[n].ok
                  /\ dec.msg = ExtractErr /\ dec.val = <<>>
                  /\ cur.data = dec.reads[n].at

C9_Witness ==
    /\ phase = "done" /\ dec.kind = "Err"
    /\ Len(dec.reads) >= 2
    /\ Len(dec.reads) < Len(tsig)

\* C10: Server::get leaves the POST routes unchanged and Server::post the
\* GET routes, and a dispatch of verb V on path p reaches a handler only if
\* p is registered under V, and then the handler registered under V.
C10_VerbIsolation ==
    [][/\ op' = "get" => post' = post
       /\ op' = "post" => get' = get
       /\ (op' = "handle_request" /\ res'.kind # "Err") =>
             req'.path \in DOMAIN (IF req'.ty = "Get" THEN get ELSE post)
       /\ (op' = "handle_request" /\ invoked' # <<>>) =>
             /\ req'.path \in DOMAIN (IF req'.ty = "Get" THEN get ELSE post)
             /\ invoked'[1].f =
                   (IF req'.ty = "Get" THEN get ELSE post)[req'.path].service.f]_vars

C10_Witness ==
    /\ Dispatched /\ req.ty = "Post"
    /\ req.path \in DOMAIN get /\ req.path \notin DOMAIN post
    /\ res.kind = "Err"

====
